---- MODULE Spec2Model ----
(***************************************************************************)
(* caffe2/python/scope.py: the thread-local name scope, device scope and   *)
(* tags, and the four context managers NameScope, DeviceScope,             *)
(* EmptyDeviceScope and Tags that install and restore them.                *)
(*                                                                         *)
(* A Python string is a sequence of one-character strings ("a/" is         *)
(* <<"a", "/">>), so that concatenation and endswith are computed.  A      *)
(* Python value that may be None or of a wrong type is a record with a     *)
(* field kind ("None", the expected type, or "other") and, for the         *)
(* expected type, a field val.                                             *)
(***************************************************************************)
EXTENDS Integers, Sequences, FiniteSets, TLC

\* Bounds of the model.
MaxDepth == 3      \* with-blocks nested on the thread of Spec
MaxDepthW == 2     \* with-blocks nested on the thread of SpecW
MaxWrites == 1     \* direct assignments to a slot in SpecW
NumChildren == 1   \* threads the main thread starts in SpecMT
MaxActive == 3     \* with-blocks active at once over the threads of SpecMT

VARIABLES
    store,     \* _threadlocal_scope: per owner, the attributes set and their values
    stack,     \* per thread, the suspended generators of its active with-blocks
    exc,       \* per thread, the exception propagating at the current nesting level
    started,   \* the threads running
    fresh,     \* per thread, TRUE until it enters its first guard
    nwrites,   \* per thread, the direct slot assignments made so far
    last       \* the operation performed by the last step

vars == <<store, stack, exc, started, fresh, nwrites, last>>

NAMESCOPE_SEPARATOR == "/"

MainThread == 0
Threads == MainThread .. NumChildren

\* ------------------------------------------------------------------------
\* Python values

None == [kind |-> "None"]
Str(s) == [kind |-> "str", val |-> s]
Other == [kind |-> "other"]

NoException == "NoException"

\* caffe2_pb2.DeviceOption: an opaque payload (device_type, device_id) and the
\* optional field node_name with its presence bit.
DeviceOption(device_type, device_id) ==
    [device_type |-> device_type, device_id |-> device_id,
     has_node_name |-> FALSE, node_name |-> ""]
WithNodeName(d, n) == [d EXCEPT !.has_node_name = TRUE, !.node_name = n]
DefaultDeviceOption == DeviceOption("CPU", 0)
Dev(d) == [kind |-> "DeviceOption", val |-> d]
Dict(m) == [kind |-> "dict", val |-> m]

Top(s) == s[Len(s)]
Pop(s) == SubSeq(s, 1, Len(s) - 1)

\* str.endswith
EndsWith(s, suffix) ==
    /\ Len(suffix) <= Len(s)
    /\ SubSeq(s, Len(s) - Len(suffix) + 1, Len(s)) = suffix

\* ------------------------------------------------------------------------
\* The thread-local store

\* Mutant: a module-level object shared by all threads.
SharedOwner(t) == MainThread

\* threading.local(): each thread has its own attributes.
SlotOwner(t) == t

EmptyStore == [attrs |-> {}, namescope |-> <<>>, devicescope |-> None, tags |-> None]

\* CurrentNameScope: the store after the lazy default, and the value returned.
InitNameScope(st) ==
    IF "namescope" \in st.attrs THEN st
    ELSE [st EXCEPT !.attrs = @ \cup {"namescope"}, !.namescope = <<>>]
CurrentNameScope(st) == InitNameScope(st).namescope

InitDeviceScope(st) ==
    IF "devicescope" \in st.attrs THEN st
    ELSE [st EXCEPT !.attrs = @ \cup {"devicescope"}, !.devicescope = None]
CurrentDeviceScope(st) == InitDeviceScope(st).devicescope

InitTags(st) ==
    IF "tags" \in st.attrs THEN st
    ELSE [st EXCEPT !.attrs = @ \cup {"tags"}, !.tags = None]
CurrentTags(st) == InitTags(st).tags

\* What the three accessors return on a store.
Context(st) ==
    [namescope |-> CurrentNameScope(st),
     devicescope |-> CurrentDeviceScope(st),
     tags |-> CurrentTags(st)]

\* ------------------------------------------------------------------------
\* NameScope(prefix, reset)

\* What a failing entry returns: the exception, and the store as it was left.
Raise(e, st) == [exc |-> e, store |-> st]

\* Python truth of the prefix argument: None and '' are false.
PrefixTruthy(prefix) == prefix.kind = "str" /\ prefix.val # <<>>

\* Mutant: the separator is left out.
NameScopePrefixBare(prefix) ==
    IF PrefixTruthy(prefix) THEN prefix.val ELSE <<>>

\* prefix = prefix + _NAMESCOPE_SEPARATOR if prefix else ''
NameScopePrefix(prefix) ==
    IF PrefixTruthy(prefix) THEN prefix.val \o <<NAMESCOPE_SEPARATOR>> ELSE <<>>

\* Mutant: reset is ignored.
NameScopeInstallAppends(namescope, prefix, reset) == namescope \o prefix

\* The value assigned to the slot: the prefix alone on reset, else appended.
NameScopeInstall(namescope, prefix, reset) ==
    IF reset THEN prefix ELSE namescope \o prefix

\* The generator up to its yield.
NameScopeEnter(st, prefix, reset) ==
    IF prefix.kind \notin {"str", "None"} THEN Raise("AssertionError", st)
    ELSE LET st1 == InitNameScope(st)
             old_scope == st1.namescope
             seg == NameScopePrefix(prefix)
         IN [exc |-> NoException,
             store |-> [st1 EXCEPT !.namescope = NameScopeInstall(st1.namescope, seg, reset)],
             frame |-> [kind |-> "NameScope", old_scope |-> old_scope,
                        prefix |-> seg, reset |-> reset]]

\* Mutant: the exit clears the prefix instead of restoring old_scope.
NameScopeExitClears(st, frame, e) ==
    IF EndsWith(st.namescope, frame.prefix)
    THEN [exc |-> e, store |-> [st EXCEPT !.namescope = <<>>]]
    ELSE Raise("AssertionError", st)

\* Mutant: the finally clause restores without asserting.
NameScopeExitNoAssert(st, frame, e) ==
    [exc |-> e, store |-> [st EXCEPT !.namescope = frame.old_scope]]

\* The finally clause; e is the exception thrown into the generator, if any.
NameScopeExit(st, frame, e) ==
    IF EndsWith(st.namescope, frame.prefix)
    THEN [exc |-> e, store |-> [st EXCEPT !.namescope = frame.old_scope]]
    ELSE Raise("AssertionError", st)

\* ------------------------------------------------------------------------
\* DeviceScope(scope, node_name)

\* Mutant: the enclosing node_name is taken even when new_scope has its own.
DeviceScopeObjectsAlwaysInherit(scope, node_name, old_scope) ==
    LET h0 == [scope |-> IF scope.kind = "DeviceOption" THEN scope.val
                         ELSE DefaultDeviceOption,
               old_scope |-> IF old_scope.kind = "DeviceOption" THEN old_scope.val
                             ELSE DefaultDeviceOption,
               new_scope |-> DefaultDeviceOption]
        h1 == IF scope.kind = "DeviceOption"
              THEN [h0 EXCEPT !.new_scope = h0.scope] ELSE h0
        h2 == IF node_name # ""
              THEN [h1 EXCEPT !.new_scope = WithNodeName(@, node_name)] ELSE h1
        h3 == IF old_scope.kind = "DeviceOption" /\ h2.old_scope.has_node_name
              THEN [h2 EXCEPT !.new_scope = WithNodeName(@, h2.old_scope.node_name)]
              ELSE h2
    IN h3

\* The three descriptor objects the generator touches, after the code before
\* the yield: the argument, the enclosing scope's descriptor and new_scope.
\* new_scope is a fresh object; only it is assigned.
DeviceScopeObjects(scope, node_name, old_scope) ==
    LET h0 == [scope |-> IF scope.kind = "DeviceOption" THEN scope.val
                         ELSE DefaultDeviceOption,
               old_scope |-> IF old_scope.kind = "DeviceOption" THEN old_scope.val
                             ELSE DefaultDeviceOption,
               new_scope |-> DefaultDeviceOption]
        \* new_scope.CopyFrom(scope)
        h1 == IF scope.kind = "DeviceOption"
              THEN [h0 EXCEPT !.new_scope = h0.scope] ELSE h0
        \* rewrite node_name if it is explicitly given
        h2 == IF node_name # ""
              THEN [h1 EXCEPT !.new_scope = WithNodeName(@, node_name)] ELSE h1
        \* nested scope should inherit the node_name if it is not explicitly set
        h3 == IF /\ old_scope.kind = "DeviceOption"
                 /\ h2.old_scope.has_node_name
                 /\ ~h2.new_scope.has_node_name
              THEN [h2 EXCEPT !.new_scope = WithNodeName(@, h2.old_scope.node_name)]
              ELSE h2
    IN h3

\* Mutant: the assertion that one argument is given is missing.
DeviceScopeEnterUnchecked(st, scope, node_name) ==
    IF scope.kind \notin {"None", "DeviceOption"} THEN Raise("AssertionError", st)
    ELSE LET st1 == InitDeviceScope(st)
             h == DeviceScopeObjects(scope, node_name, st1.devicescope)
             old_scope == IF st1.devicescope.kind = "DeviceOption"
                          THEN Dev(h.old_scope) ELSE st1.devicescope
         IN [exc |-> NoException,
             store |-> [st1 EXCEPT !.devicescope = Dev(h.new_scope)],
             frame |-> [kind |-> "DeviceScope", old_scope |-> old_scope,
                        new_scope |-> Dev(h.new_scope)],
             scope |-> IF scope.kind = "DeviceOption" THEN Dev(h.scope) ELSE scope]

DeviceScopeEnter(st, scope, node_name) ==
    IF scope.kind \notin {"None", "DeviceOption"} THEN Raise("AssertionError", st)
    ELSE IF scope.kind = "None" /\ node_name = "" THEN Raise("AssertionError", st)
    ELSE LET st1 == InitDeviceScope(st)
             h == DeviceScopeObjects(scope, node_name, st1.devicescope)
             old_scope == IF st1.devicescope.kind = "DeviceOption"
                          THEN Dev(h.old_scope) ELSE st1.devicescope
         IN [exc |-> NoException,
             store |-> [st1 EXCEPT !.devicescope = Dev(h.new_scope)],
             frame |-> [kind |-> "DeviceScope", old_scope |-> old_scope,
                        new_scope |-> Dev(h.new_scope)],
             scope |-> IF scope.kind = "DeviceOption" THEN Dev(h.scope) ELSE scope]

\* Mutant: the assertion only requires that some descriptor is current.
DeviceScopeExitAnyDescriptor(st, frame, e) ==
    IF st.devicescope.kind = "DeviceOption"
    THEN [exc |-> e, store |-> [st EXCEPT !.devicescope = frame.old_scope]]
    ELSE Raise("AssertionError", st)

DeviceScopeExit(st, frame, e) ==
    IF st.devicescope = frame.new_scope
    THEN [exc |-> e, store |-> [st EXCEPT !.devicescope = frame.old_scope]]
    ELSE Raise("AssertionError", st)

\* ------------------------------------------------------------------------
\* EmptyDeviceScope()

\* Mutant: the device scope is captured but None is not installed.
EmptyDeviceScopeEnterKeeps(st) ==
    LET st1 == InitDeviceScope(st)
    IN [exc |-> NoException,
        store |-> st1,
        frame |-> [kind |-> "EmptyDeviceScope", old_scope |-> st1.devicescope]]

\* Mutant: the tags are cleared along with the device scope.
EmptyDeviceScopeEnterClearsTags(st) ==
    LET st1 == InitDeviceScope(st)
    IN [exc |-> NoException,
        store |-> [st1 EXCEPT !.devicescope = None, !.tags = None],
        frame |-> [kind |-> "EmptyDeviceScope", old_scope |-> st1.devicescope]]

EmptyDeviceScopeEnter(st) ==
    LET st1 == InitDeviceScope(st)
    IN [exc |-> NoException,
        store |-> [st1 EXCEPT !.devicescope = None],
        frame |-> [kind |-> "EmptyDeviceScope", old_scope |-> st1.devicescope]]

\* Mutant: the restore follows the yield without try/finally.
EmptyDeviceScopeExitNoFinally(st, frame, e) ==
    IF e = NoException
    THEN [exc |-> NoException, store |-> [st EXCEPT !.devicescope = frame.old_scope]]
    ELSE [exc |-> e, store |-> st]

\* Mutant: the exit asserts, as DeviceScope does, that the slot is still None.
EmptyDeviceScopeExitAsserts(st, frame, e) ==
    IF st.devicescope = None
    THEN [exc |-> NoException, store |-> [st EXCEPT !.devicescope = frame.old_scope]]
    ELSE Raise("AssertionError", st)

\* finally: restore, then return.  The return ends the generator, so an
\* exception thrown into it is dropped: contextlib sees StopIteration and
\* __exit__ returns true.
EmptyDeviceScopeExit(st, frame, e) ==
    [exc |-> NoException, store |-> [st EXCEPT !.devicescope = frame.old_scope]]

\* ------------------------------------------------------------------------
\* Tags(new_tags)

TagKeys(tags) == IF tags.kind = "dict" THEN DOMAIN tags.val ELSE {}

\* Mutant: a differing value is never reported.
TagsConflictIgnored(old_tags, new_tags) == FALSE

\* A key of old_tags that merged_new_tags holds with another value.
TagsConflict(old_tags, new_tags) ==
    \E key \in TagKeys(old_tags) \cap DOMAIN new_tags :
        old_tags.val[key] # new_tags[key]

\* Mutant: the keys of old_tags are not added.
MergeTagsNewOnly(old_tags, new_tags) == new_tags

\* _merge_tags when it does not raise: the copy of new_tags, and each key of
\* old_tags it lacks.
MergeTags(old_tags, new_tags) ==
    [key \in DOMAIN new_tags \cup TagKeys(old_tags) |->
        IF key \in DOMAIN new_tags THEN new_tags[key] ELSE old_tags.val[key]]

TagsEnter(st, new_tags) ==
    IF new_tags.kind # "dict" THEN Raise("AssertionError", st)
    ELSE LET st1 == InitTags(st)
             old_tags == st1.tags
         IN IF TagsConflict(old_tags, new_tags.val) THEN Raise("ValueError", st1)
            ELSE LET merged_new_tags == Dict(MergeTags(old_tags, new_tags.val))
                 IN [exc |-> NoException,
                     store |-> [st1 EXCEPT !.tags = merged_new_tags],
                     frame |-> [kind |-> "Tags", old_tags |-> old_tags,
                                merged_new_tags |-> merged_new_tags]]

\* Mutant: the restore follows the yield without try/finally.
TagsExitNoFinally(st, frame, e) ==
    IF e # NoException THEN [exc |-> e, store |-> st]
    ELSE [exc |-> e, store |-> [st EXCEPT !.tags = frame.old_tags]]

TagsExit(st, frame, e) ==
    [exc |-> e, store |-> [st EXCEPT !.tags = frame.old_tags]]

\* ------------------------------------------------------------------------
\* The state machine

Init ==
    /\ store = [o \in Threads |-> EmptyStore]
    /\ stack = [t \in Threads |-> <<>>]
    /\ exc = [t \in Threads |-> NoException]
    /\ started = {MainThread}
    /\ fresh = [t \in Threads |-> TRUE]
    /\ nwrites = [t \in Threads |-> 0]
    /\ last = [t |-> MainThread, op |-> "init"]

Running(t) == t \in started /\ exc[t] = NoException

\* A call of one of the three accessors by thread t.
Read(t, slot) ==
    /\ Running(t)
    /\ LET o == SlotOwner(t)
           st == IF slot = "namescope" THEN InitNameScope(store[o])
                 ELSE IF slot = "devicescope" THEN InitDeviceScope(store[o])
                 ELSE InitTags(store[o])
       IN /\ store' = [store EXCEPT ![o] = st]
          /\ last' = [t |-> t, op |-> "read", slot |-> slot, value |-> st[slot]]
    /\ UNCHANGED <<stack, exc, started, fresh, nwrites>>

\* Entering a with-block: the generator runs to its yield, or raises.  The
\* stack entry keeps the generator's locals (gen), and for the properties the
\* arguments of the call (arg), the context read before it (entry) and after
\* it (installed) and the slots assigned directly during the block (dirty).
EnterGuard(t, r, arg) ==
    /\ Running(t)
    /\ store' = [store EXCEPT ![SlotOwner(t)] = r.store]
    /\ exc' = [exc EXCEPT ![t] = r.exc]
    /\ stack' = [stack EXCEPT ![t] =
                    IF r.exc = NoException
                    THEN Append(@, [gen |-> r.frame, arg |-> arg,
                                    entry |-> Context(store[SlotOwner(t)]),
                                    installed |-> Context(r.store),
                                    dirty |-> {}])
                    ELSE @]
    /\ fresh' = [fresh EXCEPT ![t] = FALSE]
    /\ last' = [t |-> t, op |-> "enter", arg |-> arg,
                entry |-> Context(store[SlotOwner(t)])]
    /\ UNCHANGED <<started, nwrites>>

EnterNameScope(t, prefix, reset) ==
    EnterGuard(t, NameScopeEnter(store[SlotOwner(t)], prefix, reset),
               [kind |-> "NameScope", prefix |-> prefix, reset |-> reset])

EnterDeviceScope(t, scope, node_name) ==
    LET r == DeviceScopeEnter(store[SlotOwner(t)], scope, node_name)
    IN EnterGuard(t, r,
                  [kind |-> "DeviceScope", scope |-> scope, node_name |-> node_name,
                   scope_after |-> IF r.exc = NoException THEN r.scope ELSE scope])

EnterEmptyDeviceScope(t) ==
    EnterGuard(t, EmptyDeviceScopeEnter(store[SlotOwner(t)]),
               [kind |-> "EmptyDeviceScope"])

EnterTags(t, new_tags) ==
    EnterGuard(t, TagsEnter(store[SlotOwner(t)], new_tags),
               [kind |-> "Tags", new_tags |-> new_tags])

\* The finally clause of the innermost generator.
GuardExit(st, frame, e) ==
    CASE frame.kind = "NameScope" -> NameScopeExit(st, frame, e)
      [] frame.kind = "DeviceScope" -> DeviceScopeExit(st, frame, e)
      [] frame.kind = "EmptyDeviceScope" -> EmptyDeviceScopeExit(st, frame, e)
      [] frame.kind = "Tags" -> TagsExit(st, frame, e)

Leave(t, op) ==
    /\ t \in started
    /\ stack[t] # <<>>
    /\ LET r == GuardExit(store[SlotOwner(t)], Top(stack[t]).gen, exc[t])
       IN /\ store' = [store EXCEPT ![SlotOwner(t)] = r.store]
          /\ exc' = [exc EXCEPT ![t] = r.exc]
    /\ stack' = [stack EXCEPT ![t] = Pop(@)]
    /\ last' = [t |-> t, op |-> op, kind |-> Top(stack[t]).gen.kind,
                dirty |-> Top(stack[t]).dirty,
                changed |-> Context(store[SlotOwner(t)]) # Top(stack[t]).installed]
    /\ UNCHANGED <<started, fresh, nwrites>>

\* The block of the innermost guard ends normally.
ExitGuard(t) == exc[t] = NoException /\ Leave(t, "exit")

\* An exception leaves the block of the innermost guard.
UnwindGuard(t) == exc[t] # NoException /\ Leave(t, "unwind")

\* The code of a block raises.
BlockRaise(t) ==
    /\ Running(t)
    /\ stack[t] # <<>>
    /\ exc' = [exc EXCEPT ![t] = "Exception"]
    /\ last' = [t |-> t, op |-> "raise"]
    /\ UNCHANGED <<store, stack, started, fresh, nwrites>>

\* A try/except at the current nesting level handles the exception.
Catch(t) ==
    /\ t \in started
    /\ exc[t] # NoException
    /\ exc' = [exc EXCEPT ![t] = NoException]
    /\ last' = [t |-> t, op |-> "catch"]
    /\ UNCHANGED <<store, stack, started, fresh, nwrites>>

\* Code inside a block assigns a slot of _threadlocal_scope directly.
DirectWrite(t, slot, value) ==
    /\ Running(t)
    /\ stack[t] # <<>>
    /\ nwrites[t] < MaxWrites
    /\ nwrites' = [nwrites EXCEPT ![t] = @ + 1]
    /\ store' = [store EXCEPT ![SlotOwner(t)] =
                    [@ EXCEPT !.attrs = @ \cup {slot}, ![slot] = value]]
    /\ stack' = [stack EXCEPT ![t] =
                    [i \in 1 .. Len(@) |-> [@[i] EXCEPT !.dirty = @ \cup {slot}]]]
    /\ last' = [t |-> t, op |-> "write", slot |-> slot]
    /\ UNCHANGED <<exc, started, fresh>>

\* threading.Thread(...).start()
StartThread(t, c) ==
    /\ Running(t)
    /\ c \in Threads \ started
    /\ started' = started \cup {c}
    /\ last' = [t |-> t, op |-> "start"]
    /\ UNCHANGED <<store, stack, exc, fresh, nwrites>>

\* ------------------------------------------------------------------------
\* Inputs

Slots == {"namescope", "devicescope", "tags"}

Prefixes == {None, Str(<<>>), Str(<<"a">>), Str(<<"b">>), Other}

Devices == {DeviceOption("CUDA", 0), WithNodeName(DeviceOption("CUDA", 0), "N1")}
Scopes == {None, Other} \cup {Dev(d) : d \in Devices}
NodeNames == {"", "N2"}

\* The tags of testTags and testTagsConflict and their combinations: key1 with
\* value1 or value2, key2 with value2, key3 with value3.
Keys == {"key1", "key2", "key3"}
Values == {"value1", "value2", "value3"}
TagValues(key) ==
    IF key = "key1" THEN {"value1", "value2"}
    ELSE IF key = "key2" THEN {"value2"} ELSE {"value3"}
TagMaps ==
    UNION {{m \in [K -> Values] : \A key \in K : m[key] \in TagValues(key)} :
              K \in SUBSET Keys}
NewTags == {Other} \cup {Dict(m) : m \in TagMaps}

Written(slot) ==
    IF slot = "namescope" THEN {<<>>, <<"x", "/">>, <<"x", "/", "a", "/">>}
    ELSE IF slot = "devicescope" THEN {None, Dev(DeviceOption("CUDA", 0))}
    ELSE {None, Dict([k \in {"key1"} |-> "value2"])}

\* What the thread of SpecMT numbered t passes to its guards: thread_runner's
\* "namescope_<idx>" and DeviceOption(CUDA, idx), and "master" on the main
\* thread.
ThreadChar(t) == <<"m", "p", "q", "r">>[t + 1]
ThreadPrefix(t) == Str(<<ThreadChar(t)>>)
ThreadScope(t) == Dev(DeviceOption("CUDA", t))
ThreadTags(t) == Dict([k \in {"key1"} |-> ThreadChar(t)])

\* ------------------------------------------------------------------------
\* Spec: one thread; the slots are written by the guards alone, and read by
\* them through the accessors.

Guards(t) ==
    \/ \E prefix \in Prefixes, reset \in BOOLEAN : EnterNameScope(t, prefix, reset)
    \/ \E scope \in Scopes, node_name \in NodeNames :
          EnterDeviceScope(t, scope, node_name)
    \/ EnterEmptyDeviceScope(t)
    \/ \E new_tags \in NewTags : EnterTags(t, new_tags)

Next ==
    \/ Len(stack[MainThread]) < MaxDepth /\ Guards(MainThread)
    \/ ExitGuard(MainThread)
    \/ UnwindGuard(MainThread)
    \/ BlockRaise(MainThread)
    \/ Catch(MainThread)

Spec == Init /\ [][Next]_vars

\* SpecW: one thread; code inside a block may also assign a slot directly.

GuardsW(t) ==
    \/ \E prefix \in {None, Str(<<"a">>)}, reset \in BOOLEAN :
          EnterNameScope(t, prefix, reset)
    \/ \E scope \in {Dev(DeviceOption("CPU", 0))}, node_name \in {"", "N1"} :
          EnterDeviceScope(t, scope, node_name)
    \/ EnterEmptyDeviceScope(t)
    \/ \E new_tags \in {Dict([k \in {"key1"} |-> "value1"])} : EnterTags(t, new_tags)

NextW ==
    \/ \E slot \in Slots : Read(MainThread, slot)
    \/ Len(stack[MainThread]) < MaxDepthW /\ GuardsW(MainThread)
    \/ ExitGuard(MainThread)
    \/ UnwindGuard(MainThread)
    \/ BlockRaise(MainThread)
    \/ Catch(MainThread)
    \/ \E slot \in Slots : \E value \in Written(slot) :
          DirectWrite(MainThread, slot, value)

SpecW == Init /\ [][NextW]_vars

\* SpecMT: the main thread starts threads, and every thread enters and leaves
\* guards with its own arguments, in any interleaving.

RECURSIVE Active(_)
Active(ts) ==
    IF ts = {} THEN 0
    ELSE LET t == CHOOSE u \in ts : TRUE
         IN Len(stack[t]) + Active(ts \ {t})

NextMT ==
    \/ \E c \in Threads : StartThread(MainThread, c)
    \/ \E t \in Threads :
          \/ \E slot \in Slots : Read(t, slot)
          \/ /\ Active(Threads) < MaxActive
             /\ \/ EnterNameScope(t, ThreadPrefix(t), FALSE)
                \/ EnterDeviceScope(t, ThreadScope(t), "")
                \/ EnterEmptyDeviceScope(t)
                \/ EnterTags(t, ThreadTags(t))
          \/ ExitGuard(t)

SpecMT == Init /\ [][NextMT]_vars

\* ------------------------------------------------------------------------
\* Properties

Cur(t) == Context(store[SlotOwner(t)])

\* Thread t leaves its innermost guard in this step.
Leaves(t) == Len(stack'[t]) < Len(stack[t])

\* The slot each guard assigns.
SlotOf(kind) ==
    CASE kind = "NameScope" -> "namescope"
      [] kind = "DeviceScope" -> "devicescope"
      [] kind = "EmptyDeviceScope" -> "devicescope"
      [] kind = "Tags" -> "tags"

\* C1: with the slots written by the guards alone (Spec), every exit of a
\* guard, normal or by an exception, leaves the guard's slot, and with it the
\* whole context, equal to what it was when the guard was entered; so a
\* balanced sequence of entries and exits leaves all three slots as they were.
C1_Step ==
    \A t \in Threads :
        Leaves(t) =>
            /\ Context(store'[SlotOwner(t)])[SlotOf(Top(stack[t]).gen.kind)]
                  = Top(stack[t]).entry[SlotOf(Top(stack[t]).gen.kind)]
            /\ Context(store'[SlotOwner(t)]) = Top(stack[t]).entry
C1_ExitRestoresEntryContext == [][C1_Step]_vars

\* Two guards of different slots have been left in turn, inside a third.
C1_Witness ==
    /\ last.op = "exit"
    /\ last.kind = "NameScope"
    /\ Len(stack[MainThread]) = 2
    /\ stack[MainThread][1].gen.kind = "Tags"
    /\ stack[MainThread][2].gen.kind = "DeviceScope"
    /\ Cur(MainThread).namescope = <<>>
    /\ Cur(MainThread).devicescope # None
    /\ Cur(MainThread).tags # None

\* C2: when the block of a guard raises (Spec: the block wrote no slot
\* directly), the guard's exit leaves its slot at the value it had at entry,
\* the very store a normal exit leaves.
C2_Step ==
    \A t \in Threads :
        (exc[t] # NoException /\ Leaves(t)) =>
            /\ Context(store'[SlotOwner(t)])[SlotOf(Top(stack[t]).gen.kind)]
                  = Top(stack[t]).entry[SlotOf(Top(stack[t]).gen.kind)]
            /\ store'[SlotOwner(t)]
                  = GuardExit(store[SlotOwner(t)], Top(stack[t]).gen, NoException).store
C2_ErrorExitRestores == [][C2_Step]_vars

\* A DeviceScope nested in another one has been left by an exception, which
\* is still propagating.
C2_Witness ==
    /\ last.op = "unwind"
    /\ last.kind = "DeviceScope"
    /\ exc[MainThread] = "Exception"
    /\ Len(stack[MainThread]) = 1
    /\ Cur(MainThread).devicescope # None

\* C3: when the block of a guard raises, the guard restores its slot and the
\* same exception goes on propagating: no guard swallows it.
C3_Step ==
    \A t \in Threads :
        (exc[t] # NoException /\ Leaves(t)) =>
            /\ Context(store'[SlotOwner(t)]) = Top(stack[t]).entry
            /\ exc'[t] = exc[t]
C3_ErrorPropagates == [][C3_Step]_vars

\* C4: in every interleaving of the threads' entries, exits and reads
\* (SpecMT), each thread reads only the defaults or values its own guards
\* installed, and a step of one thread leaves the slots of every other
\* thread, the main thread included, as they were.
C4_Own(t) ==
    /\ \A i \in 1 .. Len(Cur(t).namescope) :
          Cur(t).namescope[i] \in {ThreadChar(t), NAMESCOPE_SEPARATOR}
    /\ Cur(t).devicescope \in {None, ThreadScope(t)}
    /\ Cur(t).tags \in {None, ThreadTags(t)}
    /\ (stack[t] = <<>> => Cur(t) = Context(EmptyStore))
C4_Step ==
    \A u \in Threads : last'.t # u => store'[SlotOwner(u)] = store[SlotOwner(u)]
C4_ThreadIsolation == [](\A t \in Threads : C4_Own(t)) /\ [][C4_Step]_vars

\* The main thread is inside a NameScope and a DeviceScope and a thread it
\* started is inside a NameScope of its own, the main thread having entered
\* last.
C4_Witness ==
    /\ 1 \in started
    /\ last.t = MainThread
    /\ last.op = "enter"
    /\ Len(stack[MainThread]) = 2
    /\ Len(stack[1]) = 1
    /\ Cur(MainThread).namescope = <<"m", "/">>
    /\ Cur(1).namescope = <<"p", "/">>
    /\ Cur(MainThread).devicescope = ThreadScope(MainThread)
    /\ Cur(1).devicescope = None

\* C5: a read by a thread that has not yet entered a guard returns the
\* default of the slot, also on a thread started while the main thread is
\* inside guards (SpecMT).
C5_FirstReadDefault ==
    (last.op = "read" /\ fresh[last.t]) =>
        last.value = (CASE last.slot = "namescope" -> <<>>
                        [] last.slot = "devicescope" -> None
                        [] last.slot = "tags" -> None)

\* A started thread reads its name scope for the first time while the main
\* thread is inside a NameScope and a Tags block.
C5_Witness ==
    /\ last.op = "read"
    /\ last.t = 1
    /\ last.slot = "namescope"
    /\ fresh[1]
    /\ "devicescope" \notin store[SlotOwner(1)].attrs
    /\ Cur(MainThread).namescope = <<"m", "/">>
    /\ Cur(MainThread).tags = ThreadTags(MainThread)

\* The last step was a call of the guard named kind on the main thread.
Entered(kind) == last.op = "enter" /\ last.arg.kind = kind

\* p1/p2/.../pn/ for the prefix arguments of the frames of a stack.
RECURSIVE JoinPrefixes(_)
JoinPrefixes(frames) ==
    IF frames = <<>> THEN <<>>
    ELSE JoinPrefixes(Pop(frames)) \o Top(frames).arg.prefix.val
            \o <<NAMESCOPE_SEPARATOR>>

\* C6: NameScope(prefix, reset=False) entered under the prefix old installs
\* old + prefix + "/" for a non-empty string prefix and old itself for an
\* empty or absent one; so from the empty prefix nested non-reset scopes with
\* non-empty prefixes p1..pn give p1/p2/.../pn/, and with all of them left
\* the prefix is "" again.
C6_NameScopeAppends ==
    /\ (Entered("NameScope") /\ last.arg.prefix.kind \in {"str", "None"}
           /\ ~last.arg.reset) =>
          /\ exc[last.t] = NoException
          /\ Top(stack[last.t]).arg = last.arg
          /\ Cur(last.t).namescope =
                IF last.arg.prefix.kind = "str" /\ last.arg.prefix.val # <<>>
                THEN last.entry.namescope \o last.arg.prefix.val \o <<"/">>
                ELSE last.entry.namescope
    /\ (\A i \in 1 .. Len(stack[MainThread]) :
           /\ stack[MainThread][i].arg.kind = "NameScope"
           /\ ~stack[MainThread][i].arg.reset
           /\ stack[MainThread][i].arg.prefix.kind = "str"
           /\ stack[MainThread][i].arg.prefix.val # <<>>) =>
          Cur(MainThread).namescope = JoinPrefixes(stack[MainThread])

\* NameScope("a"), then NameScope("b"), then NameScope("a"): "a/b/a/".
C6_Witness ==
    /\ Entered("NameScope")
    /\ Len(stack[MainThread]) = 3
    /\ \A i \in 1 .. 3 : /\ stack[MainThread][i].arg.kind = "NameScope"
                         /\ ~stack[MainThread][i].arg.reset
    /\ Cur(MainThread).namescope = <<"a", "/", "b", "/", "a", "/">>

\* C7: NameScope(prefix, reset=True) installs prefix + "/" alone ("" for an
\* empty or absent prefix) whatever the enclosing prefix, and leaving that
\* guard restores the enclosing prefix.
C7_Entry ==
    (Entered("NameScope") /\ last.arg.prefix.kind \in {"str", "None"}
        /\ last.arg.reset) =>
       /\ exc[last.t] = NoException
       /\ Top(stack[last.t]).arg = last.arg
       /\ Cur(last.t).namescope =
             IF last.arg.prefix.kind = "str" /\ last.arg.prefix.val # <<>>
             THEN last.arg.prefix.val \o <<"/">>
             ELSE <<>>
C7_Step ==
    \A t \in Threads :
        (Leaves(t) /\ Top(stack[t]).arg.kind = "NameScope"
            /\ Top(stack[t]).arg.reset) =>
           Context(store'[SlotOwner(t)]).namescope
              = Top(stack[t]).entry.namescope
C7_NameScopeReset == []C7_Entry /\ [][C7_Step]_vars

\* NameScope("a", reset=True) inside "b/b/": the prefix is "a/".
C7_Witness ==
    /\ Entered("NameScope")
    /\ last.arg.reset
    /\ last.entry.namescope = <<"b", "/", "b", "/">>
    /\ Cur(MainThread).namescope = <<"a", "/">>

\* C8: DeviceScope installs a copy of the given descriptor (a default one
\* when only node_name is given); a given node_name replaces the copy's;
\* otherwise a copy without node_name takes the node_name of the enclosing
\* device scope, if that has one; at every depth, and with the argument and
\* the enclosing descriptor left as they were.
C8_Base(arg) ==
    IF arg.scope.kind = "DeviceOption" THEN arg.scope.val ELSE DefaultDeviceOption
C8_DeviceScopeInstalls ==
    (Entered("DeviceScope") /\ exc[last.t] = NoException) =>
        LET top == Top(stack[last.t])
            new == Cur(last.t).devicescope
            old == last.entry.devicescope
            base == C8_Base(last.arg)
            inherits == /\ old.kind = "DeviceOption"
                        /\ old.val.has_node_name
        IN /\ top.arg = last.arg
           /\ new.kind = "DeviceOption"
           /\ new.val.device_type = base.device_type
           /\ new.val.device_id = base.device_id
           /\ last.arg.node_name # "" =>
                 new.val.has_node_name /\ new.val.node_name = last.arg.node_name
           /\ (last.arg.node_name = "" /\ base.has_node_name) =>
                 new.val.has_node_name /\ new.val.node_name = base.node_name
           /\ (last.arg.node_name = "" /\ ~base.has_node_name /\ inherits) =>
                 new.val.has_node_name /\ new.val.node_name = old.val.node_name
           /\ (last.arg.node_name = "" /\ ~base.has_node_name /\ ~inherits) =>
                 ~new.val.has_node_name /\ new.val.node_name = ""
           /\ last.arg.scope_after = last.arg.scope
           /\ top.gen.old_scope = old

\* Three nested DeviceScopes: a node name given, then two descriptors
\* without one; the innermost has inherited the node name.
C8_Witness ==
    /\ Entered("DeviceScope")
    /\ Len(stack[MainThread]) = 3
    /\ stack[MainThread][1].arg.kind = "DeviceScope"
    /\ stack[MainThread][1].arg.node_name = "N2"
    /\ \A i \in 2 .. 3 :
          /\ stack[MainThread][i].arg.kind = "DeviceScope"
          /\ stack[MainThread][i].arg.node_name = ""
          /\ stack[MainThread][i].arg.scope = Dev(DeviceOption("CUDA", 0))
    /\ Cur(MainThread).devicescope = Dev(WithNodeName(DeviceOption("CUDA", 0), "N2"))

\* The keys of a tags value, which may be None.
C9_Keys(tags) == IF tags.kind = "dict" THEN DOMAIN tags.val ELSE {}
C9_Agree(old, new) ==
    \A k \in C9_Keys(old) \cap DOMAIN new : old.val[k] = new[k]

\* C9: Tags(new_tags) with no key in conflict installs the mapping over the
\* union of the enclosing keys and those of new_tags, a key of new_tags with
\* its value there and any other with its enclosing value; and leaving a Tags
\* guard restores the enclosing mapping.
C9_Entry ==
    (Entered("Tags") /\ last.arg.new_tags.kind = "dict"
        /\ C9_Agree(last.entry.tags, last.arg.new_tags.val)) =>
       LET old == last.entry.tags
           new == last.arg.new_tags.val
           cur == Cur(last.t).tags
       IN /\ exc[last.t] = NoException
          /\ Top(stack[last.t]).arg = last.arg
          /\ cur.kind = "dict"
          /\ DOMAIN cur.val = C9_Keys(old) \cup DOMAIN new
          /\ \A k \in DOMAIN cur.val :
                cur.val[k] = IF k \in DOMAIN new THEN new[k] ELSE old.val[k]
          /\ old = None => cur.val = new
C9_Step ==
    \A t \in Threads :
        (Leaves(t) /\ Top(stack[t]).arg.kind = "Tags") =>
           Context(store'[SlotOwner(t)]).tags = Top(stack[t]).entry.tags
C9_TagsMerge == []C9_Entry /\ [][C9_Step]_vars

\* {key1: value1}, then {key2: value2}, then {key3: value3}.
C9_Witness ==
    /\ Entered("Tags")
    /\ Len(stack[MainThread]) = 3
    /\ stack[MainThread][1].arg = [kind |-> "Tags",
          new_tags |-> Dict([k \in {"key1"} |-> "value1"])]
    /\ stack[MainThread][2].arg = [kind |-> "Tags",
          new_tags |-> Dict([k \in {"key2"} |-> "value2"])]
    /\ stack[MainThread][3].arg = [kind |-> "Tags",
          new_tags |-> Dict([k \in {"key3"} |-> "value3"])]
    /\ Cur(MainThread).tags =
          Dict([k \in {"key1", "key2", "key3"} |->
                  IF k = "key1" THEN "value1"
                  ELSE IF k = "key2" THEN "value2" ELSE "value3"])

\* C10: Tags(new_tags) with a key that the enclosing tags hold with another
\* value raises the conflict error at entry: no block is entered and the
\* current tags stay the enclosing mapping; with every common key equal in
\* value no error is raised.
C10_Step ==
    \A t \in Threads :
        (last'.t = t /\ last'.op = "enter" /\ last'.arg.kind = "Tags"
            /\ last'.arg.new_tags.kind = "dict") =>
           IF C9_Agree(Cur(t).tags, last'.arg.new_tags.val)
           THEN /\ exc'[t] = NoException
                /\ Len(stack'[t]) = Len(stack[t]) + 1
           ELSE /\ exc'[t] = "ValueError"
                /\ stack'[t] = stack[t]
                /\ Context(store'[SlotOwner(t)]) = Cur(t)
C10_TagsConflictRaises == [][C10_Step]_vars

\* Tags({key1: value2}) inside Tags({key1: value1}) has raised.
C10_Witness ==
    /\ Entered("Tags")
    /\ last.arg.new_tags = Dict([k \in {"key1"} |-> "value2"])
    /\ exc[MainThread] = "ValueError"
    /\ Len(stack[MainThread]) = 1
    /\ Cur(MainThread).tags = Dict([k \in {"key1"} |-> "value1"])

\* C11: in the block of an EmptyDeviceScope entered inside a DeviceScope the
\* device scope reads None, and leaving the EmptyDeviceScope puts the outer
\* descriptor back without any assertion, also when the block assigned the
\* device slot directly (SpecW).
C11_Inside ==
    /\ Entered("EmptyDeviceScope") =>
          /\ exc[last.t] = NoException
          /\ Top(stack[last.t]).gen.kind = "EmptyDeviceScope"
          /\ Cur(last.t).devicescope = None
    /\ (/\ last.op = "read"
        /\ last.slot = "devicescope"
        /\ stack[last.t] # <<>>
        /\ Top(stack[last.t]).gen.kind = "EmptyDeviceScope"
        /\ "devicescope" \notin Top(stack[last.t]).dirty) =>
          last.value = None
C11_Step ==
    \A t \in Threads :
        (Leaves(t) /\ Top(stack[t]).gen.kind = "EmptyDeviceScope") =>
           /\ Context(store'[SlotOwner(t)]).devicescope
                 = Top(stack[t]).entry.devicescope
           /\ exc'[t] # "AssertionError"
C11_EmptyDeviceScope == []C11_Inside /\ [][C11_Step]_vars

\* An EmptyDeviceScope whose block assigned the device slot has been left
\* inside a DeviceScope: the slot holds that DeviceScope's descriptor again.
C11_Witness ==
    /\ last.op = "exit"
    /\ last.kind = "EmptyDeviceScope"
    /\ "devicescope" \in last.dirty
    /\ last.changed
    /\ Len(stack[MainThread]) = 1
    /\ Top(stack[MainThread]).gen.kind = "DeviceScope"
    /\ Cur(MainThread).devicescope = Top(stack[MainThread]).gen.new_scope
    /\ Cur(MainThread).devicescope # None

\* C12: with the slots written by the guards alone (Spec), the name prefix
\* is the empty string or ends with the separator.
C12_PrefixEndsWithSeparator ==
    \A t \in Threads :
        \/ Cur(t).namescope = <<>>
        \/ Cur(t).namescope[Len(Cur(t).namescope)] = "/"

\* Three nested name scopes, the innermost entered with reset.
C12_Witness ==
    /\ Entered("NameScope")
    /\ last.arg.reset
    /\ Len(stack[MainThread]) = 3
    /\ stack[MainThread][2].entry.namescope = <<"a", "/">>
    /\ stack[MainThread][3].entry.namescope = <<"a", "/", "b", "/">>
    /\ Cur(MainThread).namescope = <<"b", "/">>

\* The arguments the guards reject: a prefix that is neither a string nor
\* None, tags that are no dict, neither a descriptor nor a node name.
C13_Invalid(arg) ==
    \/ arg.kind = "NameScope" /\ arg.prefix.kind \notin {"str", "None"}
    \/ arg.kind = "Tags" /\ arg.new_tags.kind # "dict"
    \/ arg.kind = "DeviceScope" /\ arg.scope.kind = "None" /\ arg.node_name = ""

\* C13: a guard called with invalid arguments raises at entry: no block is
\* entered and the store of the thread is left as it was.
C13_Step ==
    \A t \in Threads :
        (last'.t = t /\ last'.op = "enter" /\ C13_Invalid(last'.arg)) =>
           /\ exc'[t] = "AssertionError"
           /\ stack'[t] = stack[t]
           /\ store'[SlotOwner(t)] = store[SlotOwner(t)]
           /\ Context(store'[SlotOwner(t)]) = Cur(t)
C13_InvalidArgumentsRaise == [][C13_Step]_vars

\* DeviceScope(None) has raised inside a name scope and a device scope.
C13_Witness ==
    /\ last.op = "enter"
    /\ last.arg.kind = "DeviceScope"
    /\ last.arg.scope = None
    /\ last.arg.node_name = ""
    /\ exc[MainThread] = "AssertionError"
    /\ Len(stack[MainThread]) = 2
    /\ Cur(MainThread).namescope # <<>>
    /\ Cur(MainThread).devicescope # None

\* The guard a step enters or leaves, if it does either.
C14_Kind ==
    IF last'.op = "enter" THEN last'.arg.kind
    ELSE IF last'.op \in {"exit", "unwind"} THEN last'.kind
    ELSE "none"

\* C14: entering or leaving a guard changes no slot but the guard's own.
C14_Step ==
    \A t \in Threads :
        (last'.t = t /\ C14_Kind # "none") =>
           \A slot \in Slots \ {SlotOf(C14_Kind)} :
              /\ Context(store'[SlotOwner(t)])[slot] = Cur(t)[slot]
              /\ store'[SlotOwner(t)][slot] = store[SlotOwner(t)][slot]
C14_OwnSlotOnly == [][C14_Step]_vars

\* An EmptyDeviceScope has been entered inside a name scope and tags.
C14_Witness ==
    /\ Entered("EmptyDeviceScope")
    /\ Cur(MainThread).namescope # <<>>
    /\ Cur(MainThread).tags # None
    /\ Cur(MainThread).devicescope = None
    /\ Len(stack[MainThread]) = 3

\* The segment a NameScope appends, from its prefix argument: prefix + "/",
\* or the empty string for an empty or absent prefix.
C15_Segment(arg) ==
    IF arg.prefix.kind = "str" /\ arg.prefix.val # <<>>
    THEN arg.prefix.val \o <<NAMESCOPE_SEPARATOR>>
    ELSE <<>>

\* The top frame of t is a NameScope that t now leaves, and the name prefix
\* was assigned directly since the guard's entry.
C15_Case(t) ==
    /\ Leaves(t)
    /\ Top(stack[t]).gen.kind = "NameScope"
    /\ "namescope" \in Top(stack[t]).dirty

\* C15 as stated: a NameScope whose slot was written directly and differs at
\* exit from the installed value fails at exit with the assertion, for every
\* prefix argument and every written value.
C15_OriginalStep ==
    \A t \in Threads :
        (C15_Case(t) /\ Cur(t).namescope # Top(stack[t]).installed.namescope) =>
            exc'[t] = "AssertionError"
C15_AnyChangeFails == [][C15_OriginalStep]_vars

\* C15 amended: a NameScope whose slot was written directly fails at exit
\* with the assertion when the slot does not end with the guard's segment;
\* when it does (always so for an empty or absent prefix) the exit passes,
\* whatever else was written: the exception state is kept and the prior
\* value is restored.
C15_Step ==
    \A t \in Threads :
        C15_Case(t) =>
            IF EndsWith(Cur(t).namescope, C15_Segment(Top(stack[t]).arg))
            THEN /\ exc'[t] = exc[t]
                 /\ Context(store'[SlotOwner(t)]).namescope =
                       Top(stack[t]).entry.namescope
            ELSE exc'[t] = "AssertionError"
C15_SuffixChangeFails == [][C15_Step]_vars

\* A NameScope has ended normally although its slot was assigned in the block
\* and differed at exit from what the guard installed.
C15_Witness ==
    /\ last.op = "exit"
    /\ last.kind = "NameScope"
    /\ "namescope" \in last.dirty
    /\ last.changed
    /\ exc[MainThread] = NoException

\* C16: a DeviceScope fails at exit with the assertion exactly when the
\* current device scope is not equal, field by field, to the descriptor the
\* guard installed; otherwise the exit passes and keeps the exception state.
C16_Step ==
    \A t \in Threads :
        (Leaves(t) /\ Top(stack[t]).gen.kind = "DeviceScope") =>
            IF Cur(t).devicescope = Top(stack[t]).installed.devicescope
            THEN /\ exc'[t] = exc[t]
                 /\ Context(store'[SlotOwner(t)]).devicescope =
                       Top(stack[t]).entry.devicescope
            ELSE exc'[t] = "AssertionError"
C16_DeviceScopeAssertion == [][C16_Step]_vars

\* The exit of the outermost DeviceScope has failed: the block had assigned a
\* descriptor of another device type.
C16_Witness ==
    /\ last.op = "exit"
    /\ last.kind = "DeviceScope"
    /\ "devicescope" \in last.dirty
    /\ last.changed
    /\ exc[MainThread] = "AssertionError"
    /\ stack[MainThread] = <<>>
    /\ Cur(MainThread).devicescope = Dev(DeviceOption("CUDA", 0))

\* C17: NameScope and DeviceScope restore the value captured at entry on
\* every exit path, a failing exit assertion included.
C17_Step ==
    \A t \in Threads :
        (Leaves(t) /\ Top(stack[t]).gen.kind \in {"NameScope", "DeviceScope"}) =>
            Context(store'[SlotOwner(t)])[SlotOf(Top(stack[t]).gen.kind)] =
                Top(stack[t]).entry[SlotOf(Top(stack[t]).gen.kind)]
C17_RestoresOnEveryPath == [][C17_Step]_vars

\* What the exit assertion of the guard in frame f tests, for the context c.
C18_AssertionHolds(f, c) ==
    CASE f.gen.kind = "NameScope" -> EndsWith(c.namescope, C15_Segment(f.arg))
      [] f.gen.kind = "DeviceScope" -> c.devicescope = f.installed.devicescope
      [] OTHER -> TRUE

\* Between the steps of properly nested guards the innermost guard's slot
\* holds what that guard installed.
C18_Inv ==
    \A t \in Threads :
        stack[t] # <<>> =>
            Cur(t)[SlotOf(Top(stack[t]).gen.kind)] =
                Top(stack[t]).installed[SlotOf(Top(stack[t]).gen.kind)]

C18_Step ==
    \A t \in Threads :
        Leaves(t) =>
            /\ C18_AssertionHolds(Top(stack[t]), Cur(t))
            /\ Top(stack[t]).gen.kind \in {"NameScope", "DeviceScope"} =>
                  exc'[t] = exc[t]
            /\ exc[t] # "AssertionError" => exc'[t] # "AssertionError"

\* C18: with guards nested in LIFO order and no direct writes (Spec), the
\* exit assertion of a NameScope or DeviceScope never fails, whatever guards
\* were entered and left inside it, normally or by an exception.
C18_NoAssertionFails == []C18_Inv /\ [][C18_Step]_vars

\* An EmptyDeviceScope inside two nested DeviceScopes has been left by an
\* exception; the inner DeviceScope's descriptor is current again.
C18_Witness ==
    /\ last.op = "unwind"
    /\ last.kind = "EmptyDeviceScope"
    /\ Len(stack[MainThread]) = 2
    /\ stack[MainThread][1].gen.kind = "DeviceScope"
    /\ stack[MainThread][2].gen.kind = "DeviceScope"
    /\ Cur(MainThread).devicescope = stack[MainThread][2].installed.devicescope
    /\ Cur(MainThread).devicescope # stack[MainThread][1].installed.devicescope

\* C19: a DeviceScope entered directly inside an EmptyDeviceScope with a
\* descriptor that has no node_name, and with no node_name argument, installs
\* that descriptor without a node_name, whatever encloses the
\* EmptyDeviceScope.
C19_NoInheritanceThroughEmpty ==
    \A t \in Threads :
        (/\ Entered("DeviceScope") /\ last.t = t
         /\ exc[t] = NoException
         /\ Len(stack[t]) >= 2
         /\ stack[t][Len(stack[t]) - 1].gen.kind = "EmptyDeviceScope"
         /\ last.arg.node_name = ""
         /\ last.arg.scope.kind = "DeviceOption"
         /\ ~last.arg.scope.val.has_node_name) =>
            /\ Cur(t).devicescope = last.arg.scope
            /\ ~Cur(t).devicescope.val.has_node_name

\* DeviceScope with a node_name, EmptyDeviceScope, DeviceScope without one.
C19_Witness ==
    /\ Entered("DeviceScope")
    /\ exc[MainThread] = NoException
    /\ Len(stack[MainThread]) = 3
    /\ stack[MainThread][1].gen.kind = "DeviceScope"
    /\ stack[MainThread][1].installed.devicescope.val.has_node_name
    /\ stack[MainThread][2].gen.kind = "EmptyDeviceScope"
    /\ stack[MainThread][3].gen.kind = "DeviceScope"
    /\ last.arg.node_name = ""
    /\ ~last.arg.scope.val.has_node_name
    /\ ~Cur(MainThread).devicescope.val.has_node_name

\* C20: with the slots written by the guards alone (Spec), the current tags
\* hold every key of the dict installed by each active Tags guard of the
\* thread, with the same value.
C20_EnclosingTagsVisible ==
    \A t \in Threads :
        \A i \in 1 .. Len(stack[t]) :
            stack[t][i].gen.kind = "Tags" =>
                \A key \in DOMAIN stack[t][i].gen.merged_new_tags.val :
                    /\ key \in TagKeys(Cur(t).tags)
                    /\ Cur(t).tags.val[key] = stack[t][i].gen.merged_new_tags.val[key]

\* Three nested Tags guards, each adding one key.
C20_Witness ==
    /\ Entered("Tags")
    /\ Len(stack[MainThread]) = 3
    /\ \A i \in 1 .. 3 :
          /\ stack[MainThread][i].gen.kind = "Tags"
          /\ Cardinality(DOMAIN stack[MainThread][i].gen.merged_new_tags.val) = i
    /\ TagKeys(Cur(MainThread).tags) = Keys
====
